---------------------------- MODULE Spec2Model ----------------------------
(***************************************************************************)
(* faceSIP: the FaceCapture component (camera session) and the AuthProvider *)
(* (roster, face matching).                                                 *)
(*                                                                          *)
(* FaceCapture is a React function component.  Its handlers run to          *)
(* completion (one JavaScript task each); a setX(v) call queues an update   *)
(* that becomes visible to closures and to the ref-synchronising effects    *)
(* only at the next render/commit, while a ref (x.current) is read and      *)
(* written immediately.  `state` is the committed React state, `queued` is  *)
(* the state with the queued updates applied, Commit is the render plus its *)
(* effects.                                                                 *)
(*                                                                          *)
(* AuthProvider keeps the roster (`users`) and the active identity          *)
(* (`currentUser`).  loginWithFace, signup and updateUserFaceAdmin each run *)
(* up to their await of the image enhancement, are suspended with the       *)
(* values they closed over, and resume later.  Matching is done by          *)
(* face-api.js (FaceMatcher.findBestMatch); it is modelled as that library  *)
(* implements it.  Embeddings are scaled to integers: one coordinate, in    *)
(* units of half the threshold.                                             *)
(***************************************************************************)
EXTENDS Integers, Sequences, FiniteSets, Bags, TLC

\* ------------------------------------------------------------------ bounds
\* Camera streams the device hands out before it stays busy.
MaxStreams == 2
\* track.stop() calls counted per stream (the count saturates here).
MaxStopCount == 2
\* Interval timers that are running with their id no longer held by the ref.
MaxOrphans == 1
\* Embeddings are vectors of one coordinate, which ranges over 0..MaxCoord.
MaxCoord == 3
\* Readings of Date.now() range over 1..MaxClock.
MaxClock == 2
\* Provider calls suspended on the enhancement call at the same time.
MaxInFlight == 1
\* Signups suspended at their await at one time, where enrolments overlap.
MaxEnrolInFlight == 2

\* ------------------------------------------------------- program constants
\* const FACE_MATCH_THRESHOLD = 0.55, in the unit of the embedding
\* coordinate (one unit is 0.275).
FACE_MATCH_THRESHOLD == 2

VARIABLES
  \* ---- FaceCapture (src/unnamed/part_007, first component)
  life,                       \* "new" | "mounted" | "unmounted"
  state,                      \* committed useState values (what closures see)
  queued,                     \* state with the queued setX updates applied
  renderedOpInProgress,       \* cameraOperationInProgress.current as read by the last render
  streamRef,                  \* streamRef.current
  isCameraActiveRef,          \* isCameraActiveRef.current
  cameraOperationInProgress,  \* cameraOperationInProgress.current
  detectionIntervalRef,       \* "null" | "live" (id of a running interval) | "dead" (id of a cleared one)
  orphans,                    \* running intervals whose id the ref no longer holds
  tickAwait,                  \* a detection tick is suspended on detectAllFaces
  supported,                  \* navigator.mediaDevices.getUserMedia exists
  gum,                        \* getUserMedia requests in flight
  nextStream,                 \* id of the next MediaStream the device hands out
  stops,                      \* stops[s]: how often the tracks of stream s were stopped
  srcObject,                  \* videoNode.srcObject (0: null)
  mediaLoading,               \* the video element is loading srcObject (loadedmetadata not yet fired)
  handlerML,                  \* modelsLoaded as captured by the installed onloadedmetadata closure
  playPending,                \* pending play() promises, each by the modelsLoaded its callbacks captured
  playing,                    \* playback of srcObject has started (video.paused is false)
  playAborted,                \* the pending play() promises were rejected by a new load: their
                              \* .catch callbacks are queued microtasks and run before any task
  modelLoad,                  \* loadModels: "idle" | "detector" | "recognition" | "done" | "failed"
  capturing,                  \* captureFace suspended on the descriptor computation: 0 or the frame
  delivered,                  \* last onFaceCaptured(dataUrl, descriptor): [frame, descriptor]
  hist,                       \* "none" | "failed" (an acquisition failed) | "retried" (start after it)
  event,                      \* what the last handler did (observable outcome of the step)
  \* ---- AuthProvider (src/src/contexts/auth-context.tsx)
  users,                      \* useLocalStorage('users', []): the roster, in insertion order
  currentUser,                \* useLocalStorage('currentUser', null): NoUser or a user record
  loading,                    \* useState(true), false once the first effect has run
  now,                        \* the reading Date.now() returns
  calls,                      \* bag of the calls suspended on enhanceAndSetFace, each its closure
  result                      \* what the last AuthProvider step was and what it came to

captureVars == <<life, state, queued, renderedOpInProgress, streamRef, isCameraActiveRef,
                 cameraOperationInProgress, detectionIntervalRef, orphans, tickAwait,
                 supported, gum, nextStream, stops, srcObject, mediaLoading, handlerML,
                 playPending, playing, playAborted, modelLoad, capturing, delivered,
                 hist, event>>

authVars == <<users, currentUser, loading, now, calls, result>>

vars == <<captureVars, authVars>>

Streams == 1..MaxStreams
ErrorKinds == {"none", "models", "unsupported", "camera", "playback", "video"}

\* useState initial values
InitialState ==
  [ imageDataUrl |-> 0, stream |-> 0, error |-> "none",
    isStartingCamera |-> FALSE, isCameraActive |-> FALSE, isTakingPicture |-> FALSE,
    modelsLoaded |-> FALSE, descriptorModelsLoaded |-> FALSE,
    isFaceDetectedInPreview |-> FALSE ]

\* setX on an unmounted component is dropped by React.
Queue(q) == IF life = "mounted" THEN q ELSE queued


\* ------------------------------------------------------- stopCamera (87-104)
\* streamRef.current.getTracks().forEach(track => track.stop())
StopTracks(st, ref) ==
  IF ref = 0 THEN st
  ELSE [st EXCEPT ![ref] = IF @ < MaxStopCount THEN @ + 1 ELSE @]

\* (mutant) a stopCamera that leaves the active flag alone.
stopCameraQueuedKeepsActive(q) ==
  [q EXCEPT !.stream = 0, !.isFaceDetectedInPreview = FALSE]

\* setStream(null); setIsCameraActive(false); setIsFaceDetectedInPreview(false)
stopCameraQueued(q) ==
  [q EXCEPT !.stream = 0, !.isCameraActive = FALSE, !.isFaceDetectedInPreview = FALSE]

\* if (detectionIntervalRef.current) { clearInterval(...); detectionIntervalRef.current = null }
stopCameraInterval(ref) == "null"

\* --------------------------------------------------- startDetection (106-140)
\* The early returns: no video element, detector not loaded (closure), camera
\* not active (ref), video dimensions still zero.
startDetectionRuns(ml, activeRef) ==
  /\ life = "mounted"
  /\ ml
  /\ activeRef
  /\ srcObject # 0 /\ ~mediaLoading

\* detectionIntervalRef.current = setInterval(...): the id held before is overwritten.
startDetectionOrphans(ref, runs) ==
  IF runs /\ ref = "live" /\ orphans < MaxOrphans THEN orphans + 1 ELSE orphans

startDetectionInterval(ref, runs) == IF runs THEN "live" ELSE ref

\* ----------------------------------------------------- startCamera (143-187)
\* (mutant) startCamera without its re-entrancy guard on cameraOperationInProgress
startCameraSkipsUnguarded(opInProgress, activeRef, sRef) ==
  activeRef /\ sRef # 0

\* The two early returns of startCamera.
startCameraSkips(opInProgress, activeRef, sRef) ==
  \/ opInProgress
  \/ (activeRef /\ sRef # 0)

\* The updates startCamera queues before it awaits getUserMedia, and on the
\* branch where getUserMedia does not exist.
startCameraQueued(q) ==
  IF supported
  THEN [q EXCEPT !.error = "none", !.imageDataUrl = 0, !.isStartingCamera = TRUE,
                 !.isCameraActive = FALSE, !.isFaceDetectedInPreview = FALSE]
  ELSE [q EXCEPT !.error = "unsupported", !.imageDataUrl = 0, !.isStartingCamera = FALSE,
                 !.isCameraActive = FALSE, !.isFaceDetectedInPreview = FALSE]

\* cameraOperationInProgress.current once startCamera has reached its await (or returned).
startCameraGuard == supported

startCameraGum(n) == IF supported THEN n + 1 ELSE n

startCameraEvent == IF supported THEN "startCamera" ELSE "unsupported"

histAfterStart == IF hist = "failed" /\ supported THEN "retried" ELSE hist

\* ------------------------------------------------------------------- views
\* What the last render shows (331-460).
showVideoFeed == state.isCameraActive /\ state.imageDataUrl = 0
StartButtonShown == ~state.isCameraActive /\ ~showVideoFeed /\ state.imageDataUrl = 0
StartButtonEnabled == ~(state.isStartingCamera \/ renderedOpInProgress)
RetakeButtonShown == state.imageDataUrl # 0
RetakeButtonEnabled == ~(renderedOpInProgress \/ state.isStartingCamera)

\* video.paused || video.ended, as the detection tick reads it
VideoInactive ==
  \/ life # "mounted"
  \/ srcObject = 0
  \/ ~playing
  \/ stops[srcObject] > 0


\* ------------------------------------------------------------------- Init
\* The component function has run once (useState / useRef initial values);
\* no effect has run yet.
CaptureInit ==
  /\ life = "new"
  /\ state = InitialState
  /\ queued = InitialState
  /\ renderedOpInProgress = FALSE
  /\ streamRef = 0
  /\ isCameraActiveRef = FALSE
  /\ cameraOperationInProgress = FALSE
  /\ detectionIntervalRef = "null"
  /\ orphans = 0
  /\ tickAwait = FALSE
  /\ supported \in BOOLEAN
  /\ gum = 0
  /\ nextStream = 1
  /\ stops = [s \in Streams |-> 0]
  /\ srcObject = 0
  /\ mediaLoading = FALSE
  /\ handlerML = FALSE
  /\ playPending = {}
  /\ playing = FALSE
  /\ playAborted = FALSE
  /\ modelLoad = "idle"
  /\ capturing = 0
  /\ delivered = [frame |-> 0, descriptor |-> FALSE]
  /\ hist = "none"
  /\ event = "init"

\* ------------------------------------------------------------ mount effects
\* First commit: the effects run in source order.  The ref syncs (43-49) write
\* the initial values, loadModels starts (83-85), the auto-start effect
\* (189-198) finds nothing started and calls startCamera, the stream effect
\* (201-241) clears srcObject.
Mount ==
  /\ UNCHANGED authVars
  /\ ~playAborted
  /\ life = "new"
  /\ life' = "mounted"
  /\ modelLoad' = "detector"
  /\ cameraOperationInProgress' = startCameraGuard
  /\ queued' = startCameraQueued(queued)
  /\ gum' = startCameraGum(gum)
  /\ event' = startCameraEvent
  /\ UNCHANGED <<playAborted, state, renderedOpInProgress, streamRef, isCameraActiveRef,
                 detectionIntervalRef, orphans, tickAwait, supported, nextStream, stops,
                 srcObject, mediaLoading, handlerML, playPending, playing, capturing,
                 delivered, hist>>

\* ------------------------------------------------------- loadModels (51-81)
ModelDetectorLoaded ==
  /\ UNCHANGED authVars
  /\ ~playAborted
  /\ modelLoad = "detector"
  /\ modelLoad' = "recognition"
  /\ queued' = Queue([queued EXCEPT !.modelsLoaded = TRUE])
  /\ event' = "models"
  /\ UNCHANGED <<playAborted, life, state, renderedOpInProgress, streamRef, isCameraActiveRef,
                 cameraOperationInProgress, detectionIntervalRef, orphans, tickAwait,
                 supported, gum, nextStream, stops, srcObject, mediaLoading, handlerML,
                 playPending, playing, capturing, delivered, hist>>

ModelRecognitionLoaded ==
  /\ UNCHANGED authVars
  /\ ~playAborted
  /\ modelLoad = "recognition"
  /\ modelLoad' = "done"
  /\ queued' = Queue([queued EXCEPT !.descriptorModelsLoaded = TRUE])
  /\ event' = "models"
  /\ UNCHANGED <<playAborted, life, state, renderedOpInProgress, streamRef, isCameraActiveRef,
                 cameraOperationInProgress, detectionIntervalRef, orphans, tickAwait,
                 supported, gum, nextStream, stops, srcObject, mediaLoading, handlerML,
                 playPending, playing, capturing, delivered, hist>>

\* catch (e) { setError(errorMsg); ... }
ModelLoadFailed ==
  /\ UNCHANGED authVars
  /\ ~playAborted
  /\ modelLoad \in {"detector", "recognition"}
  /\ modelLoad' = "failed"
  /\ queued' = Queue([queued EXCEPT !.error = "models"])
  /\ event' = "modelsFailed"
  /\ UNCHANGED <<playAborted, life, state, renderedOpInProgress, streamRef, isCameraActiveRef,
                 cameraOperationInProgress, detectionIntervalRef, orphans, tickAwait,
                 supported, gum, nextStream, stops, srcObject, mediaLoading, handlerML,
                 playPending, playing, capturing, delivered, hist>>

\* --------------------------------------------------- render + effects
\* (mutant) the auto-start effect's condition without the test of error.
AutoStartsDespiteError(s, sRef, activeRef) ==
  /\ (s.imageDataUrl # state.imageDataUrl \/ s.error # state.error)
  /\ s.imageDataUrl = 0
  /\ ~activeRef
  /\ sRef = 0
  /\ ~cameraOperationInProgress

\* The auto-start effect's condition (191), on the closure's imageDataUrl and
\* error and on the refs as the earlier effects of this commit left them.
AutoStarts(s, sRef, activeRef) ==
  /\ (s.imageDataUrl # state.imageDataUrl \/ s.error # state.error)
  /\ s.imageDataUrl = 0
  /\ ~activeRef
  /\ sRef = 0
  /\ ~cameraOperationInProgress
  /\ s.error = "none"

\* The stream effect's dependencies that can change: stream, modelsLoaded
\* (and startDetection, whose identity follows modelsLoaded).
StreamEffectRuns(s) ==
  s.stream # state.stream \/ s.modelsLoaded # state.modelsLoaded

Commit ==
  /\ UNCHANGED authVars
  /\ ~playAborted
  /\ life = "mounted"
  /\ queued # state
  /\ LET s == queued
         sRef == IF s.stream # state.stream THEN s.stream ELSE streamRef
         activeRef == IF s.isCameraActive # state.isCameraActive
                      THEN s.isCameraActive ELSE isCameraActiveRef
         auto == AutoStarts(s, sRef, activeRef)
                   /\ ~startCameraSkips(cameraOperationInProgress, activeRef, sRef)
         eff == StreamEffectRuns(s)
     IN /\ state' = s
        /\ renderedOpInProgress' = cameraOperationInProgress
        /\ streamRef' = sRef
        /\ isCameraActiveRef' = activeRef
        /\ queued' = IF auto THEN startCameraQueued(s) ELSE s
        /\ cameraOperationInProgress' =
             IF auto THEN startCameraGuard ELSE cameraOperationInProgress
        /\ gum' = IF auto THEN startCameraGum(gum) ELSE gum
        /\ hist' = IF auto THEN histAfterStart ELSE hist
        /\ event' = IF auto THEN startCameraEvent ELSE "commit"
        /\ srcObject' = IF eff THEN s.stream ELSE srcObject
        /\ mediaLoading' = IF eff THEN s.stream # 0 ELSE mediaLoading
        /\ playing' = IF eff THEN FALSE ELSE playing
        /\ handlerML' = IF eff /\ s.stream # 0 THEN s.modelsLoaded ELSE handlerML
        \* assigning srcObject runs the element's load algorithm, which rejects
        \* the pending play() promises ("interrupted by a new load request")
        /\ playAborted' = (eff /\ playPending # {})
  /\ UNCHANGED <<life, detectionIntervalRef, orphans, tickAwait, supported, nextStream,
                 stops, playPending, modelLoad, capturing, delivered>>


\* ------------------------------------------- startCamera called by a click
\* <Button onClick={startCamera} disabled={isStartingCamera || cameraOperationInProgress.current}>
\* (436-441)
ClickStart ==
  /\ UNCHANGED authVars
  /\ ~playAborted
  /\ life = "mounted"
  /\ StartButtonShown /\ StartButtonEnabled
  /\ IF startCameraSkips(cameraOperationInProgress, isCameraActiveRef, streamRef)
     THEN /\ event' = "startSkipped"
          /\ UNCHANGED <<queued, cameraOperationInProgress, gum, hist>>
     ELSE /\ event' = startCameraEvent
          /\ queued' = startCameraQueued(queued)
          /\ cameraOperationInProgress' = startCameraGuard
          /\ gum' = startCameraGum(gum)
          /\ hist' = histAfterStart
  /\ UNCHANGED <<playAborted, life, state, renderedOpInProgress, streamRef, isCameraActiveRef,
                 detectionIntervalRef, orphans, tickAwait, supported, nextStream, stops,
                 srcObject, mediaLoading, handlerML, playPending, playing, modelLoad,
                 capturing, delivered>>

\* ----------------------------------- getUserMedia settles (164-166, 173-186)
\* const mediaStream = await getUserMedia(...); setStream(mediaStream)
GumResolve ==
  /\ UNCHANGED authVars
  /\ ~playAborted
  /\ gum > 0
  /\ nextStream <= MaxStreams
  /\ gum' = gum - 1
  /\ nextStream' = nextStream + 1
  /\ queued' = Queue([queued EXCEPT !.stream = nextStream])
  /\ event' = "gotStream"
  /\ UNCHANGED <<playAborted, life, state, renderedOpInProgress, streamRef, isCameraActiveRef,
                 cameraOperationInProgress, detectionIntervalRef, orphans, tickAwait,
                 supported, stops, srcObject, mediaLoading, handlerML, playPending, playing,
                 modelLoad, capturing, delivered, hist>>

\* (mutant) the catch block without setIsStartingCamera(false)
startCameraFailedQueuedStillStarting(q) ==
  [q EXCEPT !.error = "camera", !.stream = 0, !.isCameraActive = FALSE]

\* catch (err) { setError(message); setStream(null); setIsCameraActive(false);
\*               setIsStartingCamera(false); ... }
startCameraFailedQueued(q) ==
  [q EXCEPT !.error = "camera", !.stream = 0, !.isCameraActive = FALSE,
            !.isStartingCamera = FALSE]

\* getUserMedia rejects: the catch block, which also does
\* cameraOperationInProgress.current = false
GumReject ==
  /\ UNCHANGED authVars
  /\ ~playAborted
  /\ gum > 0
  /\ gum' = gum - 1
  /\ queued' = Queue(startCameraFailedQueued(queued))
  /\ cameraOperationInProgress' = FALSE
  /\ hist' = IF life = "mounted" /\ hist = "none" THEN "failed" ELSE hist
  /\ event' = "acquireFailed"
  /\ UNCHANGED <<playAborted, life, state, renderedOpInProgress, streamRef, isCameraActiveRef,
                 detectionIntervalRef, orphans, tickAwait, supported, nextStream, stops,
                 srcObject, mediaLoading, handlerML, playPending, playing, modelLoad,
                 capturing, delivered>>

\* ------------------------------------------------ video element (206-235)
\* videoNode.onloadedmetadata = () => { videoNode.play().then(...).catch(...) }
VideoLoadedMetadata ==
  /\ UNCHANGED authVars
  /\ ~playAborted
  /\ life = "mounted"
  /\ srcObject # 0 /\ mediaLoading
  /\ stops[srcObject] = 0
  /\ mediaLoading' = FALSE
  /\ playPending' = playPending \cup {handlerML}
  /\ event' = "loadedmetadata"
  /\ UNCHANGED <<playAborted, life, state, queued, renderedOpInProgress, streamRef, isCameraActiveRef,
                 cameraOperationInProgress, detectionIntervalRef, orphans, tickAwait,
                 supported, gum, nextStream, stops, srcObject, handlerML, playing,
                 modelLoad, capturing, delivered, hist>>

\* .then(() => { setIsCameraActive(true); setIsStartingCamera(false); setError(null);
\*               cameraOperationInProgress.current = false;
\*               if (modelsLoaded) startDetection(); })
\* (mutant) a resolution that leaves the starting flag alone.
playStartedQueuedKeepsStarting(q) ==
  [q EXCEPT !.isCameraActive = TRUE, !.error = "none"]

\* setIsCameraActive(true); setIsStartingCamera(false); setError(null);
playStartedQueued(q) ==
  [q EXCEPT !.isCameraActive = TRUE, !.isStartingCamera = FALSE, !.error = "none"]

PlayResolve(ml) ==
  /\ UNCHANGED authVars
  /\ ~playAborted
  /\ ml \in playPending
  /\ life = "mounted"
  /\ srcObject # 0 /\ ~mediaLoading
  /\ stops[srcObject] = 0
  /\ playPending' = playPending \ {ml}
  /\ playing' = TRUE
  /\ queued' = Queue(playStartedQueued(queued))
  /\ cameraOperationInProgress' = FALSE
  /\ LET runs == ml /\ startDetectionRuns(ml, isCameraActiveRef)
     IN /\ orphans' = startDetectionOrphans(detectionIntervalRef, runs)
        /\ detectionIntervalRef' = startDetectionInterval(detectionIntervalRef, runs)
  /\ event' = "playStarted"
  /\ UNCHANGED <<playAborted, life, state, renderedOpInProgress, streamRef, isCameraActiveRef,
                 tickAwait, supported, gum, nextStream, stops, srcObject, mediaLoading,
                 handlerML, modelLoad, capturing, delivered, hist>>

\* .catch(playError => { setError(message); setIsCameraActive(false);
\*        setIsStartingCamera(false); cameraOperationInProgress.current = false;
\*        stopCamera(); })
\* A pending play() promise is rejected when the browser refuses playback, when
\* the element is reloaded or emptied, and when the element leaves the document.
PlayReject(ml) ==
  /\ UNCHANGED authVars
  /\ ml \in playPending
  /\ playPending' = playPending \ {ml}
  /\ queued' = Queue(stopCameraQueued([queued EXCEPT !.error = "playback",
                         !.isCameraActive = FALSE, !.isStartingCamera = FALSE]))
  /\ cameraOperationInProgress' = FALSE
  /\ stops' = StopTracks(stops, streamRef)
  /\ detectionIntervalRef' = stopCameraInterval(detectionIntervalRef)
  /\ hist' = IF life = "mounted" /\ hist = "none" THEN "failed" ELSE hist
  /\ playAborted' = (playAborted /\ playPending # {ml})
  /\ event' = "playFailed"
  /\ UNCHANGED <<life, state, renderedOpInProgress, streamRef, isCameraActiveRef,
                 orphans, tickAwait, supported, gum, nextStream, srcObject, mediaLoading,
                 handlerML, playing, modelLoad, capturing, delivered>>

\* videoNode.onerror = (e) => { setError(...); setIsCameraActive(false);
\*   setIsStartingCamera(false); cameraOperationInProgress.current = false; stopCamera(); }
VideoError ==
  /\ UNCHANGED authVars
  /\ ~playAborted
  /\ life = "mounted"
  /\ srcObject # 0
  /\ stops[srcObject] = 0
  /\ queued' = Queue(stopCameraQueued([queued EXCEPT !.error = "video",
                         !.isCameraActive = FALSE, !.isStartingCamera = FALSE]))
  /\ cameraOperationInProgress' = FALSE
  /\ stops' = StopTracks(stops, streamRef)
  /\ detectionIntervalRef' = stopCameraInterval(detectionIntervalRef)
  /\ hist' = IF hist = "none" THEN "failed" ELSE hist
  /\ event' = "videoError"
  /\ UNCHANGED <<playAborted, life, state, renderedOpInProgress, streamRef, isCameraActiveRef,
                 orphans, tickAwait, supported, gum, nextStream, srcObject, mediaLoading,
                 handlerML, playPending, playing, modelLoad, capturing, delivered>>

\* onPlay={() => { if (modelsLoaded && isCameraActiveRef.current &&
\*                     !detectionIntervalRef.current) startDetection(); }}   (400-405)
VideoOnPlay ==
  /\ UNCHANGED authVars
  /\ ~playAborted
  /\ life = "mounted"
  /\ srcObject # 0 /\ ~mediaLoading
  /\ stops[srcObject] = 0
  /\ LET runs == /\ state.modelsLoaded /\ isCameraActiveRef
                 /\ detectionIntervalRef = "null"
                 /\ startDetectionRuns(state.modelsLoaded, isCameraActiveRef)
     IN /\ orphans' = startDetectionOrphans(detectionIntervalRef, runs)
        /\ detectionIntervalRef' = startDetectionInterval(detectionIntervalRef, runs)
  /\ event' = "onPlay"
  /\ UNCHANGED <<playAborted, life, state, queued, renderedOpInProgress, streamRef, isCameraActiveRef,
                 cameraOperationInProgress, tickAwait, supported, gum, nextStream, stops,
                 srcObject, mediaLoading, handlerML, playPending, playing, modelLoad,
                 capturing, delivered, hist>>


\* ----------------------------------------------------- captureFace (251-308)
\* (mutant) captureFace without the isCameraActive test
captureFaceReadyIgnoringActive(s) ==
  /\ s.stream # 0
  /\ s.isFaceDetectedInPreview

\* (mutant) captureFace without the isFaceDetectedInPreview test
captureFaceReadyIgnoringFace(s) ==
  /\ s.stream # 0
  /\ s.isCameraActive

\* if (videoRef.current && canvasRef.current && stream && isCameraActive &&
\*     isFaceDetectedInPreview)            -- all read from the render's closure
captureFaceReady(s) ==
  /\ s.stream # 0
  /\ s.isCameraActive
  /\ s.isFaceDetectedInPreview

\* captureFace is called.  The Capture button is rendered only with the video
\* feed and is disabled without a detected face (443-448); the function's own
\* guard is what decides here.  One call is suspended at a time.
CaptureFace ==
  /\ UNCHANGED authVars
  /\ ~playAborted
  /\ life = "mounted"
  /\ capturing = 0
  /\ IF captureFaceReady(state)
     THEN IF state.descriptorModelsLoaded
          THEN \* setIsTakingPicture(true); setImageDataUrl(dataUrl); await ...
               /\ queued' = [queued EXCEPT !.isTakingPicture = TRUE,
                                           !.imageDataUrl = state.stream]
               /\ capturing' = state.stream
               /\ event' = "capturePending"
               /\ UNCHANGED <<delivered, stops, detectionIntervalRef>>
          ELSE \* no await: setIsTakingPicture(false); onFaceCaptured(dataUrl, null);
               \* stopCamera()
               /\ queued' = stopCameraQueued([queued EXCEPT !.isTakingPicture = FALSE,
                                                !.imageDataUrl = state.stream])
               /\ delivered' = [frame |-> state.stream, descriptor |-> FALSE]
               /\ stops' = StopTracks(stops, streamRef)
               /\ detectionIntervalRef' = stopCameraInterval(detectionIntervalRef)
               /\ event' = "captured"
               /\ UNCHANGED capturing
     ELSE \* toast only
          /\ event' = "CaptureNotReady"
          /\ UNCHANGED <<queued, capturing, delivered, stops, detectionIntervalRef>>
  /\ UNCHANGED <<playAborted, life, state, renderedOpInProgress, streamRef, isCameraActiveRef,
                 cameraOperationInProgress, orphans, tickAwait, supported, gum,
                 nextStream, srcObject, mediaLoading, handlerML, playPending, playing,
                 modelLoad, hist>>

\* The descriptor computation settles (descriptor, no face, or an exception):
\* setIsTakingPicture(false); onFaceCaptured(dataUrl, descriptor); stopCamera()
CaptureResume ==
  /\ UNCHANGED authVars
  /\ ~playAborted
  /\ capturing # 0
  /\ \E desc \in BOOLEAN :
       delivered' = [frame |-> capturing, descriptor |-> desc]
  /\ capturing' = 0
  /\ queued' = Queue(stopCameraQueued([queued EXCEPT !.isTakingPicture = FALSE]))
  /\ stops' = StopTracks(stops, streamRef)
  /\ detectionIntervalRef' = stopCameraInterval(detectionIntervalRef)
  /\ event' = "captured"
  /\ UNCHANGED <<playAborted, life, state, renderedOpInProgress, streamRef, isCameraActiveRef,
                 cameraOperationInProgress, orphans, tickAwait, supported, gum,
                 nextStream, srcObject, mediaLoading, handlerML, playPending, playing,
                 modelLoad, hist>>

\* ---------------------------------------------------- handleRetake (311-329)
HandleRetake ==
  /\ UNCHANGED authVars
  /\ ~playAborted
  /\ life = "mounted"
  /\ RetakeButtonShown /\ RetakeButtonEnabled
  /\ LET q == [queued EXCEPT !.imageDataUrl = 0, !.error = "none",
                             !.isFaceDetectedInPreview = FALSE]
         ref == stopCameraInterval(detectionIntervalRef)
         starts == ~isCameraActiveRef /\ ~cameraOperationInProgress
         runs == ~starts /\ isCameraActiveRef /\ state.modelsLoaded
                   /\ startDetectionRuns(state.modelsLoaded, isCameraActiveRef)
     IN /\ queued' = IF starts THEN startCameraQueued(q) ELSE q
        /\ cameraOperationInProgress' =
             IF starts THEN startCameraGuard ELSE cameraOperationInProgress
        /\ gum' = IF starts THEN startCameraGum(gum) ELSE gum
        /\ hist' = IF starts THEN histAfterStart ELSE hist
        /\ detectionIntervalRef' = startDetectionInterval(ref, runs)
        /\ orphans' = startDetectionOrphans(ref, runs)
        /\ event' = IF starts THEN startCameraEvent ELSE "retake"
  /\ UNCHANGED <<playAborted, life, state, renderedOpInProgress, streamRef, isCameraActiveRef,
                 tickAwait, supported, nextStream, stops, srcObject, mediaLoading, handlerML,
                 playPending, playing, modelLoad, capturing, delivered>>

\* ------------------------------------------------- detection tick (123-139)
\* if (video.paused || video.ended || !isCameraActiveRef.current) {
\*   if (detectionIntervalRef.current) clearInterval(detectionIntervalRef.current);
\*   setIsFaceDetectedInPreview(false); return; }
\* const detections = await faceapi.detectAllFaces(...)
DetectionTick ==
  /\ UNCHANGED authVars
  /\ ~playAborted
  /\ detectionIntervalRef = "live" \/ orphans > 0
  /\ ~tickAwait
  /\ IF VideoInactive \/ ~isCameraActiveRef
     THEN /\ detectionIntervalRef' =
               IF detectionIntervalRef = "live" THEN "dead" ELSE detectionIntervalRef
          /\ queued' = Queue([queued EXCEPT !.isFaceDetectedInPreview = FALSE])
          /\ UNCHANGED tickAwait
     ELSE /\ tickAwait' = TRUE
          /\ UNCHANGED <<detectionIntervalRef, queued>>
  /\ event' = "tick"
  /\ UNCHANGED <<playAborted, life, state, renderedOpInProgress, streamRef, isCameraActiveRef,
                 cameraOperationInProgress, orphans, supported, gum, nextStream, stops,
                 srcObject, mediaLoading, handlerML, playPending, playing, modelLoad,
                 capturing, delivered, hist>>

\* (mutant) a tick that also computes a descriptor from the video and hands
\* it to the caller.
TickResumeExtracting ==
  /\ UNCHANGED authVars
  /\ ~playAborted
  /\ tickAwait
  /\ tickAwait' = FALSE
  /\ \E face \in BOOLEAN :
       queued' = Queue([queued EXCEPT !.isFaceDetectedInPreview = face])
  /\ delivered' = [frame |-> srcObject, descriptor |-> TRUE]
  /\ event' = "detected"
  /\ UNCHANGED <<playAborted, life, state, renderedOpInProgress, streamRef, isCameraActiveRef,
                 cameraOperationInProgress, detectionIntervalRef, orphans, supported,
                 gum, nextStream, stops, srcObject, mediaLoading, handlerML, playPending,
                 playing, modelLoad, capturing, hist>>

\* setIsFaceDetectedInPreview(detections.length > 0)
TickResume ==
  /\ UNCHANGED authVars
  /\ ~playAborted
  /\ tickAwait
  /\ tickAwait' = FALSE
  /\ \E face \in BOOLEAN :
       queued' = Queue([queued EXCEPT !.isFaceDetectedInPreview = face])
  /\ event' = "detected"
  /\ UNCHANGED <<playAborted, life, state, renderedOpInProgress, streamRef, isCameraActiveRef,
                 cameraOperationInProgress, detectionIntervalRef, orphans, supported,
                 gum, nextStream, stops, srcObject, mediaLoading, handlerML, playPending,
                 playing, modelLoad, capturing, delivered, hist>>

\* detectAllFaces rejects: the async callback ends there (it has no try/catch),
\* nothing after the await runs, and the interval goes on.
TickReject ==
  /\ UNCHANGED authVars
  /\ ~playAborted
  /\ tickAwait
  /\ tickAwait' = FALSE
  /\ event' = "detectFailed"
  /\ UNCHANGED <<playAborted, life, state, queued, renderedOpInProgress, streamRef,
                 isCameraActiveRef, cameraOperationInProgress, detectionIntervalRef,
                 orphans, supported, gum, nextStream, stops, srcObject, mediaLoading,
                 handlerML, playPending, playing, modelLoad, capturing, delivered, hist>>

\* ------------------------------------------------ unmount cleanup (243-249)
\* return () => { stopCamera(); if (cameraOperationInProgress.current)
\*                cameraOperationInProgress.current = false; }
\* The widget is unmounted whenever its page or dialog goes away
\* (src/src/components/layout/app-header.tsx:211-227).
Unmount ==
  /\ UNCHANGED authVars
  /\ ~playAborted
  /\ life = "mounted"
  /\ life' = "unmounted"
  /\ stops' = StopTracks(stops, streamRef)
  /\ detectionIntervalRef' = stopCameraInterval(detectionIntervalRef)
  /\ cameraOperationInProgress' = FALSE
  /\ event' = "unmount"
  /\ UNCHANGED <<playAborted, state, queued, renderedOpInProgress, streamRef, isCameraActiveRef,
                 orphans, tickAwait, supported, gum, nextStream, srcObject, mediaLoading,
                 handlerML, playPending, playing, modelLoad, capturing, delivered, hist>>

CaptureNext ==
  \/ Mount
  \/ ModelDetectorLoaded
  \/ ModelRecognitionLoaded
  \/ ModelLoadFailed
  \/ Commit
  \/ ClickStart
  \/ GumResolve
  \/ GumReject
  \/ VideoLoadedMetadata
  \/ \E ml \in BOOLEAN : PlayResolve(ml)
  \/ \E ml \in BOOLEAN : PlayReject(ml)
  \/ VideoError
  \/ VideoOnPlay
  \/ CaptureFace
  \/ CaptureResume
  \/ HandleRetake
  \/ DetectionTick
  \/ TickResume
  \/ TickReject
  \/ Unmount

\* =============================================================== AuthProvider
\* src/src/contexts/auth-context.tsx.  Every function of the provider closes
\* over the `users` and `currentUser` of the render that created it, and keeps
\* that snapshot across its await of enhanceAndSetFace.
\* null where a user is expected.
NoUser == [id |-> ""]
NoDescriptor == <<>>
Embeddings == {<<x>> : x \in 0..MaxCoord}
Names == {"n"}
Emails == {"a@x", "b@x"}
ImageUris == {"photo"}
\* Date.now().toString()
UserIds == {ToString(t) : t \in 1..MaxClock}

\* enhanceFaceImage's answer for a photo, when it answers.
enhancedPhotoDataUri(uri) == <<"enhanced", uri>>

\* null where an image URI is expected.
NoUri == <<>>

\* (mutant) an enhancement that falls back on the photo it was given.
enhanceAndSetFaceFallsBack(photoDataUri, answered) ==
  IF answered THEN enhancedPhotoDataUri(photoDataUri) ELSE <<"unenhanced", photoDataUri>>

\* enhanceAndSetFace: the enhanced photo when enhanceFaceImage answered, null
\* when it threw.
enhanceAndSetFace(photoDataUri, answered) ==
  IF answered THEN enhancedPhotoDataUri(photoDataUri) ELSE NoUri

\* ---- face-api.js, as called at auth-context.tsx:83-84
\* euclideanDistance(a, b), squared: distances are only ever compared, and the
\* square root is monotone.
euclideanDistanceSq(a, b) ==
  (a[1] - b[1]) * (a[1] - b[1])

\* (mutant) the descriptors labelled with the email instead of the id.
labeledFaceDescriptorsByEmail(us) ==
  LET keep == SelectSeq(us, LAMBDA u : u.faceDescriptor # NoDescriptor)
  IN  [i \in 1..Len(keep) |->
         [label |-> keep[i].email, descriptor |-> keep[i].faceDescriptor]]

\* users.filter(user => user.faceDescriptor && user.faceDescriptor.length > 0)
\*      .map(user => new LabeledFaceDescriptors(user.id, [descriptor]))
labeledFaceDescriptors(us) ==
  LET keep == SelectSeq(us, LAMBDA u : u.faceDescriptor # NoDescriptor)
  IN  [i \in 1..Len(keep) |->
         [label |-> keep[i].id, descriptor |-> keep[i].faceDescriptor]]

\* (mutant) a reduction that compares nothing and keeps the first entry.
reduceBestKeepsFirst(best, curr) == best

\* (mutant) a reduction that keeps the earlier entry on equal distances.
reduceBestFirstOnTie(best, curr) == IF best.distance <= curr.distance THEN best ELSE curr

\* best.distance < curr.distance ? best : curr
reduceBest(best, curr) == IF best.distance < curr.distance THEN best ELSE curr

\* FaceMatcher.matchDescriptor: one FaceMatch per label (the mean distance to
\* its descriptors, here one each), reduced to the best from left to right.
RECURSIVE matchDescriptor(_, _)
matchDescriptor(labeled, query) ==
  LET n == Len(labeled)
      curr == [label |-> labeled[n].label,
               distance |-> euclideanDistanceSq(labeled[n].descriptor, query)]
  IN  IF n = 1 THEN curr
      ELSE reduceBest(matchDescriptor(SubSeq(labeled, 1, n - 1), query), curr)

\* (mutant) a threshold test that accepts the boundary.
withinThresholdInclusive(distance, threshold) == distance <= threshold * threshold

\* bestMatch.distance < this.distanceThreshold
withinThreshold(distance, threshold) == distance < threshold * threshold

\* FaceMatcher.findBestMatch
findBestMatch(labeled, query, threshold) ==
  LET bestMatch == matchDescriptor(labeled, query)
  IN  IF withinThreshold(bestMatch.distance, threshold) THEN bestMatch
      ELSE [label |-> "unknown", distance |-> bestMatch.distance]

\* The index of the first user satisfying a predicate, 0 when there is none.
FirstIndex(hits) == IF hits = {} THEN 0 ELSE CHOOSE i \in hits : \A j \in hits : i <= j

\* users.find(u => u.id === id): the first such user, NoUser when there is none.
findById(us, id) ==
  LET i == FirstIndex({k \in 1..Len(us) : us[k].id = id})
  IN  IF i = 0 THEN NoUser ELSE us[i]

\* users.find(u => u.email === email)
findByEmail(us, email) ==
  LET i == FirstIndex({k \in 1..Len(us) : us[k].email = email})
  IN  IF i = 0 THEN NoUser ELSE us[i]

\* users.findIndex(u => u.id === userId), counted from 1 (0 for -1)
findIndexById(us, userId) == FirstIndex({k \in 1..Len(us) : us[k].id = userId})

Suspend(c) == calls (+) SetToBag({c})
Resume(c) == calls (-) SetToBag({c})
Suspended == BagToSet(calls)

\* No suspended call.
NoCall == [call |-> "none"]
\* What a call resolved to before its await, and the toast it showed.
Returned(call, ok, outcome) ==
  [call |-> call, ok |-> ok, outcome |-> outcome, closure |-> NoCall]
\* The call has not resolved: it awaits enhanceAndSetFace.
Awaiting(call) == Returned(call, FALSE, "awaiting")
\* What the suspended call c resolved to after its await.
Resolved(c, ok, outcome) ==
  [call |-> c.call, ok |-> ok, outcome |-> outcome, closure |-> c]

AuthInit ==
  /\ users = <<>>
  /\ currentUser = NoUser
  /\ loading = FALSE
  /\ now = 1
  /\ calls = EmptyBag
  /\ result = Returned("none", FALSE, "none")

\* ---- loginWithFace, up to its await (lines 47-62)
\* (mutant) the early returns without the test for an empty roster.
loginRefusalSkipsEmptyRoster(us, descriptor) ==
  IF descriptor = NoDescriptor THEN "noDescriptor" ELSE "none"

loginRefusal(us, descriptor) ==
  IF Len(us) = 0 THEN "noUsersRegistered"
  ELSE IF descriptor = NoDescriptor THEN "noDescriptor"
  ELSE "none"

\* limit: how many provider calls may be suspended at once.
LoginWithin(limit, uri, descriptor) ==
  LET refusal == loginRefusal(users, descriptor) IN
  /\ UNCHANGED captureVars
  /\ refusal # "none" \/ BagCardinality(calls) < limit
  /\ IF refusal # "none"
     THEN /\ result' = Returned("loginWithFace", FALSE, refusal)
          /\ loading' = FALSE
          /\ calls' = calls
     ELSE /\ calls' = Suspend([call |-> "loginWithFace", users |-> users,
                                uri |-> uri, descriptor |-> descriptor])
          /\ loading' = TRUE
          /\ result' = Awaiting("loginWithFace")
  /\ UNCHANGED <<users, currentUser, now>>

LoginWithFace(uri, descriptor) == LoginWithin(MaxInFlight, uri, descriptor)

\* (mutant) the matched id looked up in the roster of the moment.
matchedUserFromCurrentUsers(c, label) == findById(users, label)

\* users.find(u => u.id === bestMatch.label), over the users the call closed
\* over: the same array the matcher was built from
matchedUser(c, label) == findById(c.users, label)

\* (mutant) a login that ends the session when the face is not recognised.
LoginResumeLoggingOut(c, enhanced) ==
  /\ UNCHANGED captureVars
  /\ c \in Suspended
  /\ c.call = "loginWithFace"
  /\ LET labeled == labeledFaceDescriptors(c.users)
         bestMatch == findBestMatch(labeled, c.descriptor, FACE_MATCH_THRESHOLD)
         found == matchedUser(c, bestMatch.label)
     IN
     /\ IF enhanceAndSetFace(c.uri, enhanced) = NoUri
        THEN /\ result' = Resolved(c, FALSE, "enhanceFailed")
             /\ currentUser' = currentUser
        ELSE IF Len(labeled) = 0
        THEN /\ result' = Resolved(c, FALSE, "noComparableDescriptors")
             /\ currentUser' = currentUser
        ELSE IF bestMatch.label = "unknown"
        THEN /\ result' = Resolved(c, FALSE, "unknown")
             /\ currentUser' = NoUser
        ELSE IF found = NoUser
        THEN /\ result' = Resolved(c, FALSE, "matchedUserNotFound")
             /\ currentUser' = currentUser
        ELSE /\ result' = Resolved(c, TRUE, "matched")
             /\ currentUser' = found
  /\ calls' = Resume(c)
  /\ loading' = FALSE
  /\ UNCHANGED <<users, now>>

\* ---- loginWithFace, after its await (lines 63-101)
LoginResume(c, enhanced) ==
  /\ UNCHANGED captureVars
  /\ c \in Suspended
  /\ c.call = "loginWithFace"
  /\ LET labeled == labeledFaceDescriptors(c.users)
         bestMatch == findBestMatch(labeled, c.descriptor, FACE_MATCH_THRESHOLD)
         found == matchedUser(c, bestMatch.label)
     IN
     /\ IF enhanceAndSetFace(c.uri, enhanced) = NoUri
        THEN /\ result' = Resolved(c, FALSE, "enhanceFailed")
             /\ currentUser' = currentUser
        ELSE IF Len(labeled) = 0
        THEN /\ result' = Resolved(c, FALSE, "noComparableDescriptors")
             /\ currentUser' = currentUser
        ELSE IF bestMatch.label = "unknown"
        THEN /\ result' = Resolved(c, FALSE, "unknown")
             /\ currentUser' = currentUser
        ELSE IF found = NoUser
        THEN /\ result' = Resolved(c, FALSE, "matchedUserNotFound")
             /\ currentUser' = currentUser
        ELSE /\ result' = Resolved(c, TRUE, "matched")
             /\ currentUser' = found
  /\ calls' = Resume(c)
  /\ loading' = FALSE
  /\ UNCHANGED <<users, now>>

\* ---- signup, up to its await (lines 103-117)
\* (mutant) the early returns without the test for a known email.
signupRefusalSkipsEmail(us, email, descriptor) ==
  IF descriptor = NoDescriptor THEN "noDescriptor" ELSE "none"

\* (mutant) the early returns without the test for a missing descriptor.
signupRefusalSkipsDescriptor(us, email, descriptor) ==
  IF findByEmail(us, email) # NoUser THEN "emailTaken" ELSE "none"

signupRefusal(us, email, descriptor) ==
  IF findByEmail(us, email) # NoUser THEN "emailTaken"
  ELSE IF descriptor = NoDescriptor THEN "noDescriptor"
  ELSE "none"

\* limit: how many provider calls may be suspended at once.
SignupWithin(limit, name, email, uri, descriptor) ==
  LET refusal == signupRefusal(users, email, descriptor) IN
  /\ UNCHANGED captureVars
  /\ refusal # "none" \/ BagCardinality(calls) < limit
  /\ IF refusal # "none"
     THEN /\ result' = Returned("signup", FALSE, refusal)
          /\ loading' = FALSE
          /\ calls' = calls
     ELSE /\ calls' = Suspend([call |-> "signup", users |-> users,
                                name |-> name, email |-> email,
                                uri |-> uri, descriptor |-> descriptor])
          /\ loading' = TRUE
          /\ result' = Awaiting("signup")
  /\ UNCHANGED <<users, currentUser, now>>

Signup(name, email, uri, descriptor) ==
  SignupWithin(MaxInFlight, name, email, uri, descriptor)

\* const newUser: User = { id: Date.now().toString(), ... }
newUser(c) ==
  [id |-> ToString(now), name |-> c.name, email |-> c.email, faceImageUri |-> c.uri,
   enhancedFaceImageUri |-> enhancedPhotoDataUri(c.uri),
   faceDescriptor |-> c.descriptor, isAdmin |-> (Len(c.users) = 0)]

\* (mutant) the new user appended to the roster of the moment, as a functional
\* update setUsers(prev => [...prev, newUser]) would.
appendedToCurrentUsers(c) == Append(users, newUser(c))

\* [...users, newUser], over the users the call closed over
appendedUsers(c) == Append(c.users, newUser(c))

\* ---- signup, after its await (lines 118-137)
SignupResume(c, enhanced) ==
  /\ UNCHANGED captureVars
  /\ c \in Suspended
  /\ c.call = "signup"
  /\ IF enhanceAndSetFace(c.uri, enhanced) = NoUri
     THEN /\ result' = Resolved(c, FALSE, "enhanceFailed")
          /\ UNCHANGED <<users, currentUser>>
     ELSE /\ users' = appendedUsers(c)
          /\ currentUser' = newUser(c)
          /\ result' = Resolved(c, TRUE, "signedUp")
  /\ calls' = Resume(c)
  /\ loading' = FALSE
  /\ UNCHANGED now

\* ---- logout (lines 139-141); the effect on [currentUser] clears loading
Logout ==
  /\ UNCHANGED captureVars
  /\ currentUser' = NoUser
  /\ loading' = IF currentUser # NoUser THEN FALSE ELSE loading
  /\ result' = Returned("logout", TRUE, "loggedOut")
  /\ UNCHANGED <<users, now, calls>>

\* ---- updateUserFaceAdmin, up to its await (lines 143-158)
\* (mutant) the early returns without the test for an unknown id.
updateRefusalSkipsNotFound(us, userId, descriptor) ==
  IF descriptor = NoDescriptor THEN "noDescriptor" ELSE "none"

updateRefusal(us, userId, descriptor) ==
  IF findIndexById(us, userId) = 0 THEN "userNotFound"
  ELSE IF descriptor = NoDescriptor THEN "noDescriptor"
  ELSE "none"

\* limit: how many provider calls may be suspended at once.
UpdateWithin(limit, userId, uri, descriptor) ==
  LET refusal == updateRefusal(users, userId, descriptor) IN
  /\ UNCHANGED captureVars
  /\ refusal # "none" \/ BagCardinality(calls) < limit
  /\ IF refusal # "none"
     THEN /\ result' = Returned("updateUserFaceAdmin", FALSE, refusal)
          /\ loading' = FALSE
          /\ calls' = calls
     ELSE /\ calls' = Suspend([call |-> "updateUserFaceAdmin", users |-> users,
                                currentUser |-> currentUser,
                                userIndex |-> findIndexById(users, userId),
                                userId |-> userId,
                                uri |-> uri, descriptor |-> descriptor])
          /\ loading' = TRUE
          /\ result' = Awaiting("updateUserFaceAdmin")
  /\ UNCHANGED <<users, currentUser, now>>

UpdateUserFaceAdmin(userId, uri, descriptor) ==
  UpdateWithin(MaxInFlight, userId, uri, descriptor)

\* const updatedUsers = [...users]; updatedUsers[userIndex] =
\*   { ...updatedUsers[userIndex], faceImageUri, enhancedFaceImageUri, faceDescriptor }
updatedUsers(c) ==
  [c.users EXCEPT ![c.userIndex] =
     [@ EXCEPT !.faceImageUri = c.uri,
               !.enhancedFaceImageUri = enhancedPhotoDataUri(c.uri),
               !.faceDescriptor = c.descriptor]]

\* ---- updateUserFaceAdmin, after its await (lines 159-180)
UpdateResume(c, enhanced) ==
  /\ UNCHANGED captureVars
  /\ c \in Suspended
  /\ c.call = "updateUserFaceAdmin"
  /\ IF enhanceAndSetFace(c.uri, enhanced) = NoUri
     THEN /\ result' = Resolved(c, FALSE, "enhanceFailed")
          /\ UNCHANGED <<users, currentUser>>
     ELSE /\ users' = updatedUsers(c)
          /\ currentUser' = IF c.currentUser.id = c.userId
                            THEN updatedUsers(c)[c.userIndex] ELSE currentUser
          /\ result' = Resolved(c, TRUE, "updated")
  /\ calls' = Resume(c)
  /\ loading' = FALSE
  /\ UNCHANGED now

\* The wall clock moves on.
ClockTick ==
  /\ UNCHANGED captureVars
  /\ now < MaxClock
  /\ now' = now + 1
  /\ UNCHANGED <<users, currentUser, loading, calls, result>>

AuthNext ==
  \/ \E uri \in ImageUris, d \in Embeddings \cup {NoDescriptor} : LoginWithFace(uri, d)
  \/ \E c \in Suspended, enhanced \in BOOLEAN : LoginResume(c, enhanced)
  \/ \E name \in Names, email \in Emails, uri \in ImageUris,
        d \in Embeddings \cup {NoDescriptor} : Signup(name, email, uri, d)
  \/ \E c \in Suspended, enhanced \in BOOLEAN : SignupResume(c, enhanced)
  \/ Logout
  \/ \E userId \in UserIds, uri \in ImageUris,
        d \in Embeddings \cup {NoDescriptor} : UpdateUserFaceAdmin(userId, uri, d)
  \/ \E c \in Suspended, enhanced \in BOOLEAN : UpdateResume(c, enhanced)
  \/ ClockTick

\* ============================================================ ProtectedPage
\* src/src/components/auth/protected-page.tsx: a component without state of
\* its own, rendered from the provider's user and loading.
\* (mutant) a page that renders its children to any active identity.
ProtectedPageRendersToAnyUser(user, isLoading, adminOnly) ==
  IF isLoading \/ user = NoUser THEN "PageSpinner" ELSE "children"

\* if (loading || !user || (adminOnly && !user.isAdmin)) return <PageSpinner />;
ProtectedPageRenders(user, isLoading, adminOnly) ==
  IF isLoading \/ user = NoUser \/ (adminOnly /\ ~user.isAdmin)
  THEN "PageSpinner" ELSE "children"

\* The effect on [user, loading, adminOnly, router]: where router.replace
\* sends the browser, "none" when it is not called.
ProtectedPageRedirects(user, isLoading, adminOnly) ==
  IF isLoading THEN "none"
  ELSE IF user = NoUser THEN "/login"
  ELSE IF adminOnly /\ ~user.isAdmin THEN "/dashboard"
  ELSE "none"

Init == CaptureInit /\ AuthInit

\* The capture component on its own: the provider stays as constructed.
SpecCapture == Init /\ [][CaptureNext]_vars

\* What the platform is bound to do once it can: React commits queued
\* updates; a camera request, a model download, a play() promise, a detector
\* call and a descriptor computation settle one way or the other; a loading
\* video fires loadedmetadata; a running interval ticks.  Nothing obliges the
\* user to click, the video element to fire error or play, or the page to
\* unmount the component.
CaptureFairness ==
  /\ WF_vars(Mount)
  /\ WF_vars(Commit)
  /\ WF_vars(ModelDetectorLoaded \/ ModelRecognitionLoaded \/ ModelLoadFailed)
  /\ WF_vars(GumResolve \/ GumReject)
  /\ WF_vars(VideoLoadedMetadata)
  /\ WF_vars(\E ml \in BOOLEAN : PlayResolve(ml) \/ PlayReject(ml))
  /\ WF_vars(CaptureResume)
  /\ WF_vars(DetectionTick)
  /\ WF_vars(TickResume \/ TickReject)

SpecCaptureFair == Init /\ [][CaptureNext]_vars /\ CaptureFairness

\* The provider on its own: the capture component stays as constructed.
ProviderInit == Init /\ supported = TRUE

SpecAuth == ProviderInit /\ [][AuthNext]_vars

\* Enrolments that overlap: signup can be called again while earlier signups
\* still await enhanceAndSetFace (the provider does not serialise its calls).
EnrolEmbeddings == {<<0>>, <<1>>}

SignupOverlapping(name, email, uri, descriptor) ==
  SignupWithin(MaxEnrolInFlight, name, email, uri, descriptor)

EnrolNext ==
  \/ \E name \in Names, email \in Emails, uri \in ImageUris,
        d \in EnrolEmbeddings \cup {NoDescriptor} : SignupOverlapping(name, email, uri, d)
  \/ \E c \in Suspended, enhanced \in BOOLEAN : SignupResume(c, enhanced)
  \/ ClockTick

SpecEnrol == ProviderInit /\ [][EnrolNext]_vars

\* Logins that overlap roster mutations: loginWithFace, signup and
\* updateUserFaceAdmin are async callbacks of one provider, and any of them
\* can be called while another still awaits enhanceAndSetFace.  Embeddings are
\* taken from the two ends of the coordinate range, so that a replaced
\* embedding no longer matches what the old one matched.  A signup is started
\* with no more than MaxInFlight calls suspended; logins and face updates are
\* started beside it and beside one another.
RosterEmbeddings == {<<0>>, <<MaxCoord>>}

LoginOverlapping(uri, descriptor) == LoginWithin(MaxEnrolInFlight, uri, descriptor)

UpdateOverlapping(userId, uri, descriptor) ==
  UpdateWithin(MaxEnrolInFlight, userId, uri, descriptor)

RosterNext ==
  \/ \E uri \in ImageUris, d \in RosterEmbeddings : LoginOverlapping(uri, d)
  \/ \E c \in Suspended, enhanced \in BOOLEAN : LoginResume(c, enhanced)
  \/ \E name \in Names, email \in Emails, uri \in ImageUris, d \in RosterEmbeddings :
        Signup(name, email, uri, d)
  \/ \E c \in Suspended, enhanced \in BOOLEAN : SignupResume(c, enhanced)
  \/ \E userId \in UserIds, uri \in ImageUris, d \in RosterEmbeddings :
        UpdateOverlapping(userId, uri, d)
  \/ \E c \in Suspended, enhanced \in BOOLEAN : UpdateResume(c, enhanced)
  \/ ClockTick

SpecRoster == ProviderInit /\ [][RosterNext]_vars

\* ===================================================== capture session claims
\* Streams the device handed out whose tracks nobody has stopped.
LiveStreams == {s \in Streams : s < nextStream /\ stops[s] = 0}

\* The session as the component reports it (committed state).
Live(s) == s.isCameraActive /\ s.stream # 0
AcquisitionErrors == {"camera", "playback", "video"}
ErrorState ==
  /\ life = "mounted" /\ ~playAborted
  /\ state = queued
  /\ state.error \in AcquisitionErrors
  /\ state.imageDataUrl = 0
StartEvents == {"startCamera", "unsupported", "startSkipped"}

\* C1: a start call while an acquisition is in flight or a stream is held never
\* requests another stream: at most one getUserMedia request is in flight, at
\* most one obtained stream is un-stopped, and never both at once.
C1_NoSecondStream == gum + Cardinality(LiveStreams) <= 1

\* C1 witness: a start call arrived while the camera request was in flight and
\* was skipped.
C1_StartSkippedWhileAcquiring == event = "startSkipped" /\ gum = 1

\* C2 (as claimed): once the component is torn down and no camera request is
\* pending any more, every stream the session obtained has had its tracks
\* stopped.
C2_ReleasedOnEveryExit ==
  (life = "unmounted" /\ gum = 0) => LiveStreams = {}

\* C3 (as claimed): whatever the order of stop calls and commits, the tracks
\* of a stream are stopped exactly once in total.
C3_ReleasedExactlyOnce == \A s \in Streams : stops[s] <= 1

AbsDist(a, b) == IF a[1] >= b[1] THEN a[1] - b[1] ELSE b[1] - a[1]

\* The roster entries of the snapshot c matched against: those with an embedding.
Eligible(c) == {i \in 1..Len(c.users) : c.users[i].faceDescriptor # NoDescriptor}
DistanceTo(c, i) == AbsDist(c.users[i].faceDescriptor, c.descriptor)
MinDistance(c) ==
  CHOOSE m \in {DistanceTo(c, i) : i \in Eligible(c)} :
    \A i \in Eligible(c) : m <= DistanceTo(c, i)
Nearest(c) == {i \in Eligible(c) : DistanceTo(c, i) = MinDistance(c)}
First(S) == CHOOSE i \in S : \A j \in S : i <= j
Last(S) == CHOOSE i \in S : \A j \in S : j <= i
IdsOf(c, S) == {c.users[i].id : i \in S}

\* The last provider step resolved a loginWithFace that reached the matcher;
\* result.closure is what that call closed over (its roster snapshot and its
\* query), and currentUser is as that call left it.
LoginWasDecided ==
  /\ result.call = "loginWithFace"
  /\ result.closure # NoCall
  /\ result.outcome # "enhanceFailed"

SameEmbedding(c) == {i \in Eligible(c) : c.users[i].faceDescriptor = c.descriptor}

LoginCalled ==
  /\ result'.call = "loginWithFace"
  /\ result'.closure = NoCall
  /\ <<calls, result>>' # <<calls, result>>

\* C9: a login against an empty roster fails at once with the "no users
\* registered" outcome, whatever the query, without suspending and without
\* changing the roster or the active identity; no login ever reaches the
\* matcher, or comes out Unknown, with an empty roster snapshot.
C9_EmptyRoster ==
  [][/\ (LoginCalled /\ users = <<>>) =>
          /\ result' = Returned("loginWithFace", FALSE, "noUsersRegistered")
          /\ UNCHANGED <<users, currentUser, calls>>
     /\ \A c \in Suspended : c.call = "loginWithFace" => c.users # <<>>
     /\ (result'.call = "loginWithFace" /\ result'.outcome = "unknown") =>
          result'.closure.users # <<>>]_vars

\* C9 witness: a login with a descriptor was refused because nobody is enrolled.
C9_RefusedNobodyEnrolled ==
  /\ users = <<>>
  /\ result = Returned("loginWithFace", FALSE, "noUsersRegistered")
  /\ calls = EmptyBag

C11_OnlyNearestLoggedIn ==
  (LoginWasDecided /\ result.ok) =>
    \E i \in Nearest(result.closure) :
      /\ currentUser = result.closure.users[i]
      /\ DistanceTo(result.closure, i) <= FACE_MATCH_THRESHOLD

\* The inputs a signup call can be made with.
Descriptors == Embeddings \cup {NoDescriptor}

\* C12: a signup with an email that some roster identity already has returns
\* false with the "email taken" outcome, whatever its other inputs, without
\* suspending and without changing the roster or the active identity; no
\* suspended signup carries an email that its roster snapshot already holds.
C12_DuplicateEmailRefused ==
  [][/\ \A name \in Names, email \in Emails, uri \in ImageUris, d \in Descriptors :
          (Signup(name, email, uri, d) /\ findByEmail(users, email) # NoUser) =>
            /\ result' = Returned("signup", FALSE, "emailTaken")
            /\ UNCHANGED <<users, currentUser, calls>>
     /\ \A c \in Suspended :
          c.call = "signup" => findByEmail(c.users, c.email) = NoUser]_vars

\* C12 witness: with one identity enrolled and nobody logged in, a signup was
\* refused because its email is in the roster.
C12_RefusedEmailTaken ==
  /\ result = Returned("signup", FALSE, "emailTaken")
  /\ Len(users) = 1
  /\ currentUser = NoUser
  /\ calls = EmptyBag

\* No two entries of a roster have the same email.
UniqueEmails(us) == \A i, j \in 1..Len(us) : us[i].email = us[j].email => i = j

\* C13: whatever enrolments ran, overlapped or not, no two identities in the
\* roster have the same email, and neither do two identities of any roster
\* snapshot a suspended signup holds.
C13_EmailsUnique ==
  /\ UniqueEmails(users)
  /\ \A c \in Suspended : UniqueEmails(c.users)

\* C13 witness: two signups with the same email were in flight together; one
\* has enrolled its identity, the other still awaits enhancement.
C13_SameEmailInFlight ==
  \E c \in Suspended :
    /\ c.call = "signup"
    /\ result.outcome = "signedUp"
    /\ result.closure.email = c.email
    /\ result.closure.users = c.users
    /\ \E i \in 1..Len(users) : users[i].email = c.email

\* This step is the resumption of a signup that enrolled its identity.
SignedUp == result'.outcome = "signedUp" /\ calls' # calls

\* C14 (as claimed): the identity a signup enrols is privileged exactly when
\* the roster it is enrolled into, the roster at the moment of the insertion,
\* is empty.
C14_FirstEnrolmentPrivileged ==
  [][SignedUp => (currentUser'.isAdmin <=> users = <<>>)]_vars

\* The suspended signups that closed over an empty roster.
FirstEnrolments == {c \in Suspended : c.call = "signup" /\ c.users = <<>>}

\* C15 (as claimed): the emptiness test is atomic with the insertion: at most
\* one pending enrolment has observed an empty roster, and none is left holding
\* that observation once the roster has an identity.
C15_FirstTestAtomic ==
  /\ \A c \in FirstEnrolments : calls[c] = 1
  /\ Cardinality(FirstEnrolments) <= 1
  /\ users # <<>> => FirstEnrolments = {}

\* C16: an updateUserFaceAdmin with an id that no roster identity has returns
\* false with the "user not found" outcome, whatever its other inputs, without
\* suspending and without changing the roster or the active identity; no
\* suspended update is for an id that its roster snapshot lacks.
C16_UnknownIdRefused ==
  [][/\ \A userId \in UserIds, uri \in ImageUris, d \in Descriptors :
          (/\ UpdateUserFaceAdmin(userId, uri, d)
           /\ \A i \in 1..Len(users) : users[i].id # userId) =>
            /\ result' = Returned("updateUserFaceAdmin", FALSE, "userNotFound")
            /\ UNCHANGED <<users, currentUser, calls>>
     /\ \A c \in Suspended :
          c.call = "updateUserFaceAdmin" =>
            /\ c.userIndex \in 1..Len(c.users)
            /\ c.users[c.userIndex].id = c.userId]_vars

\* C16 witness: with an identity enrolled and logged in, an update for an id
\* nobody has was refused.
C16_RefusedUnknownId ==
  /\ result = Returned("updateUserFaceAdmin", FALSE, "userNotFound")
  /\ users # <<>>
  /\ currentUser # NoUser
  /\ calls = EmptyBag

C18_FacePresenceGate ==
  [][(CaptureFace /\ state.modelsLoaded) =>
       /\ event' \in {"capturePending", "captured"} => state.isFaceDetectedInPreview
       /\ (Live(state) /\ ~state.isFaceDetectedInPreview) =>
            /\ event' = "CaptureNotReady"
            /\ Live(state') /\ Live(queued') = Live(queued)
            /\ UNCHANGED <<state, queued, streamRef, isCameraActiveRef,
                           detectionIntervalRef, orphans, stops, srcObject,
                           capturing, delivered>>
    ]_captureVars

\* C18 witness: in Live, with the detector loaded and its loop running but
\* reporting no face, a capture request was refused.
C18_RefusedWithoutFace ==
  /\ event = "CaptureNotReady"
  /\ Live(state) /\ state = queued
  /\ state.modelsLoaded
  /\ ~state.isFaceDetectedInPreview
  /\ detectionIntervalRef = "live"
  /\ delivered.frame = 0

\* C19 (as claimed): once loadModels has failed, a captureFace call made in
\* Live takes a still frame, whatever the face report says.
C19_CaptureAllowedWithoutModels ==
  [][(CaptureFace /\ modelLoad = "failed" /\ Live(state)) =>
       event' \in {"capturePending", "captured"}]_captureVars

\* C20 (as claimed): a detection interval is running only while the camera is
\* active with no captured frame (by the latest values set), and no running
\* interval has lost its id to a newer one.
C20_LoopOnlyWhileLive ==
  /\ orphans = 0
  /\ detectionIntervalRef = "live" =>
       (queued.isCameraActive /\ queued.stream # 0 /\ queued.imageDataUrl = 0)

\* The session is Live by the latest values set: camera active on a held
\* stream, no captured frame.
LiveQueued ==
  queued.isCameraActive /\ queued.stream # 0 /\ queued.imageDataUrl = 0

\* C21 (as claimed): a detection tick that resumes from the detector call
\* after the session has left Live writes nothing into the session.
C21_NoStragglerWrite ==
  [][(TickResume /\ ~LiveQueued) => queued' = queued]_captureVars

\* Playback is confirmed, the rendered session is Live and the detector is
\* loaded.
LiveWithDetector ==
  /\ life = "mounted"
  /\ state = queued
  /\ Live(state) /\ state.imageDataUrl = 0
  /\ state.modelsLoaded
  /\ playing

\* C22 (as claimed): once the session is Live with the detector loaded, a
\* detection interval is eventually running, unless the session leaves Live.
C22_LoopStartsInLive ==
  LiveWithDetector ~> (detectionIntervalRef = "live" \/ ~LiveWithDetector)

\* C23 (as claimed): a retake resets the captured frame and leaves no frame or
\* embedding delivered before it with the caller that enrols or matches.
C23_RetakeClearsCapture ==
  [][HandleRetake =>
       /\ queued'.imageDataUrl = 0
       /\ delivered' = [frame |-> 0, descriptor |-> FALSE]]_captureVars

\* C24 (as claimed): when a capture ends without an embedding (no face in the
\* still frame, recognition models not loaded, or the computation threw), the
\* still frame is neither kept as the captured frame nor handed to the caller.
C24_FailedExtractionDiscardsFrame ==
  (event = "captured" /\ ~delivered.descriptor) =>
    /\ queued.imageDataUrl = 0
    /\ delivered.frame = 0

\* C25: the descriptor computation is never started or finished by a
\* detection tick; it is started only by a captureFace call that takes a frame
\* with the recognition models loaded, once and on that frame, and an
\* embedding reaches the caller only when that computation settles, together
\* with the frame it was started on.
C25_ExtractionOncePerCapture ==
  [][/\ (DetectionTick \/ TickResume) => UNCHANGED <<capturing, delivered>>
     /\ (capturing = 0 /\ capturing' # 0) =>
          /\ CaptureFace
          /\ state.descriptorModelsLoaded
          /\ capturing' = state.stream
          /\ queued'.imageDataUrl = capturing'
     /\ (capturing # 0 /\ capturing' # capturing) =>
          /\ CaptureResume
          /\ capturing' = 0
          /\ delivered'.frame = capturing
     /\ (delivered' # delivered /\ delivered'.descriptor) =>
          (CaptureResume /\ delivered'.frame = capturing)
    ]_captureVars

\* C25 witness: a capture's descriptor computation has settled with an
\* embedding, delivered with the frame of that capture.
C25_EmbeddingDelivered ==
  /\ event = "captured"
  /\ delivered.descriptor
  /\ delivered.frame # 0
  /\ delivered.frame = queued.imageDataUrl
  /\ capturing = 0

\* C26 (as claimed): a detection tick whose detector call fails sets no error,
\* stops no track and leaves the camera and the loop as they were; and after a
\* tick that finds the video paused or ended, or the camera inactive, no
\* detection interval is running any more.
C26_LoopAdvisory ==
  [][/\ TickReject =>
          UNCHANGED <<state, queued, stops, streamRef, isCameraActiveRef,
                      cameraOperationInProgress, detectionIntervalRef, orphans,
                      srcObject, capturing, delivered>>
     /\ (DetectionTick /\ (VideoInactive \/ ~isCameraActiveRef)) =>
          /\ detectionIntervalRef' # "live"
          /\ orphans' = 0
          /\ ~tickAwait'
          /\ queued'.error = queued.error /\ stops' = stops
    ]_captureVars

\* C27 (as claimed): a start that has taken the re-entrancy guard eventually releases it,
\* with the session Live, in an error state or torn down; and loadModels
\* eventually ends, loaded or failed with the error set.
C27_NothingBlocks ==
  /\ cameraOperationInProgress ~>
       /\ ~cameraOperationInProgress
       /\ \/ queued.isCameraActive
          \/ queued.error # "none"
          \/ life = "unmounted"
  /\ (modelLoad \in {"detector", "recognition"}) ~> (modelLoad \in {"done", "failed"})

\* An identity written whole: its enhanced image is the enhancement of its
\* image, and it carries an embedding.
WholeIdentity(u) ==
  /\ u.enhancedFaceImageUri = enhancedPhotoDataUri(u.faceImageUri)
  /\ u.faceDescriptor # NoDescriptor

\* Whom a login with this embedding logs in when both the match and the lookup
\* use the roster us; NoUser when it logs nobody in.
SnapshotLogin(us, descriptor) ==
  LET labeled == labeledFaceDescriptors(us)
  IN  IF Len(labeled) = 0 THEN NoUser
      ELSE findById(us, findBestMatch(labeled, descriptor, FACE_MATCH_THRESHOLD).label)

\* C28: whatever signups and face updates start or finish while a login awaits
\* the enhancement, a login that succeeds logs in the identity that one roster
\* yields for both the match and the lookup -- the roster as it was when the
\* login was called or the roster as it is now -- and every identity of the
\* roster it used was written whole.
C28_OneRosterSnapshot ==
  [][\A c \in Suspended, enhanced \in BOOLEAN :
       (LoginResume(c, enhanced) /\ result'.ok) =>
          /\ currentUser' # NoUser
          /\ \E us \in {c.users, users} : currentUser' = SnapshotLogin(us, c.descriptor)
          /\ \A k \in 1..Len(c.users) : WholeIdentity(c.users[k])
    ]_vars

\* A login has succeeded after the roster changed under it: the identity it
\* logged in is the one of its own snapshot, which the roster no longer holds.
C28_LoggedInFromOlderRoster ==
  /\ result.call = "loginWithFace" /\ result.ok
  /\ result.closure.users # users
  /\ currentUser = SnapshotLogin(result.closure.users, result.closure.descriptor)
  /\ findById(users, currentUser.id) # currentUser

\* C29: neither the rendered state nor the state with the queued updates
\* applied has the camera-active flag and the starting-camera flag both set.
C29_FlagsNeverBothSet ==
  /\ ~(state.isCameraActive /\ state.isStartingCamera)
  /\ ~(queued.isCameraActive /\ queued.isStartingCamera)

\* play() has resolved for a start in progress: the rendered state still
\* shows the start, the queued updates turn the camera active.
C29_FlagsSwitching ==
  /\ event = "playStarted"
  /\ state.isStartingCamera /\ ~state.isCameraActive
  /\ queued.isCameraActive /\ ~queued.isStartingCamera

\* C30: while an error is set, in the rendered state or among the queued
\* updates, a camera acquisition is started only by the Start button or by
\* Retake: no render starts one through the auto-start effect.
C30_ErrorNeedsExplicitRetry ==
  [][(gum' > gum /\ (state.error # "none" \/ queued.error # "none"))
       => (ClickStart \/ HandleRetake)]_captureVars

\* A failed acquisition or playback has been rendered with everything else the
\* auto-start effect asks for in place, and the render started nothing.
C30_ErrorRenderedNothingStarted ==
  /\ event = "commit"
  /\ state.error \in AcquisitionErrors
  /\ state.imageDataUrl = 0
  /\ ~isCameraActiveRef /\ streamRef = 0 /\ ~cameraOperationInProgress
  /\ gum = 0

\* The captured frame is handed to the caller: captureFace calls
\* onFaceCaptured, at once or when the descriptor computation has settled.
FrameDelivered == event' = "captured" /\ (CaptureFace \/ CaptureResume)

\* C31 (as claimed): when the captured frame is handed to the caller the
\* tracks of the stream it was taken from are stopped and no detection
\* interval is left running, and while a captured frame is held a camera
\* acquisition is started only by the user.
C31_DeliveryReleases ==
  [][/\ FrameDelivered =>
          /\ stops'[delivered'.frame] > 0
          /\ detectionIntervalRef' # "live"
          /\ orphans' = 0
     /\ (gum' > gum /\ queued.imageDataUrl # 0) => (ClickStart \/ HandleRetake)
    ]_captureVars

\* C32 (as claimed): no two identities of the roster have the same id.
C32_IdsUnique ==
  \A i, j \in 1..Len(users) : users[i].id = users[j].id => i = j

\* C33 (as claimed): a signup or a face update that succeeds writes back no
\* stale copy of the roster: a successful signup keeps every identity the
\* roster holds, and a successful update keeps every identity but its target
\* as it is.
C33_NoLostMutation ==
  [][\A c \in Suspended, enhanced \in BOOLEAN :
       /\ (SignupResume(c, enhanced) /\ result'.ok) =>
             /\ Len(users') = Len(users) + 1
             /\ \A k \in 1..Len(users) : users'[k] = users[k]
       /\ (UpdateResume(c, enhanced) /\ result'.ok) =>
             /\ Len(users') = Len(users)
             /\ \A k \in 1..Len(users) : k # c.userIndex => users'[k] = users[k]
    ]_vars

\* C34 (as claimed): with no call in flight, an active identity is in the
\* roster under its id with the same images, embedding and privilege flag.
C34_ActiveIdentityInRoster ==
  (currentUser # NoUser /\ calls = EmptyBag) =>
     \E k \in 1..Len(users) :
        /\ users[k].id = currentUser.id
        /\ users[k].faceImageUri = currentUser.faceImageUri
        /\ users[k].enhancedFaceImageUri = currentUser.enhancedFaceImageUri
        /\ users[k].faceDescriptor = currentUser.faceDescriptor
        /\ users[k].isAdmin = currentUser.isAdmin

\* C35: signup and updateUserFaceAdmin called with a null descriptor return
\* false, suspend nothing and leave the roster as it is; and every identity
\* of the roster carries an embedding and is among the labelled descriptors
\* a login matches against.
C35_EveryIdentityHasEmbedding ==
  [][/\ \A name \in Names, email \in Emails, uri \in ImageUris :
          Signup(name, email, uri, NoDescriptor) =>
             ~result'.ok /\ result'.outcome # "awaiting" /\ users' = users /\ calls' = calls
     /\ \A userId \in UserIds, uri \in ImageUris :
          UpdateUserFaceAdmin(userId, uri, NoDescriptor) =>
             ~result'.ok /\ result'.outcome # "awaiting" /\ users' = users /\ calls' = calls
     /\ \A k \in 1..Len(users') : users'[k].faceDescriptor # NoDescriptor
     /\ Len(labeledFaceDescriptors(users')) = Len(users')
    ]_vars

\* A face update without a descriptor has been refused for an enrolled
\* identity, with two identities in the roster.
C35_NullDescriptorRefused ==
  /\ result.call = "updateUserFaceAdmin" /\ result.outcome = "noDescriptor"
  /\ Len(users) = 2

C37_FailedLoginChangesNothing ==
  [][/\ \A uri \in ImageUris, d \in Descriptors :
          LoginWithFace(uri, d) => (users' = users /\ currentUser' = currentUser)
     /\ \A c \in Suspended, enhanced \in BOOLEAN :
          (LoginResume(c, enhanced) /\ ~result'.ok) =>
             (users' = users /\ currentUser' = currentUser)
    ]_vars

\* A login with an unrecognised face has failed while an identity was active,
\* and that identity is still the active one.
C37_UnknownFaceKeepsSession ==
  /\ result.call = "loginWithFace" /\ ~result.ok /\ result.outcome = "unknown"
  /\ currentUser # NoUser
  /\ Len(users) > 0

\* C38 (as claimed): a updateUserFaceAdmin that succeeds leaves the length and
\* the order of the roster and every identity but its target as they are, keeps the
\* target's id, name, email and privilege flag, and gives the target the new
\* image, its enhancement and the new embedding.
C38_UpdateTouchesOnlyFace ==
  [][\A c \in Suspended, enhanced \in BOOLEAN :
       (UpdateResume(c, enhanced) /\ result'.ok) =>
          /\ Len(users') = Len(users)
          /\ \A k \in 1..Len(users) : k # c.userIndex => users'[k] = users[k]
          /\ users'[c.userIndex].id = users[c.userIndex].id
          /\ users'[c.userIndex].name = users[c.userIndex].name
          /\ users'[c.userIndex].email = users[c.userIndex].email
          /\ users'[c.userIndex].isAdmin = users[c.userIndex].isAdmin
          /\ users'[c.userIndex].faceImageUri = c.uri
          /\ users'[c.userIndex].enhancedFaceImageUri = enhancedPhotoDataUri(c.uri)
          /\ users'[c.userIndex].faceDescriptor = c.descriptor
    ]_vars

\* The active identity may see a page: it exists, nothing is loading, and it is
\* privileged where the page is for administrators only.
Authorised(adminOnly) ==
  ~loading /\ currentUser # NoUser /\ (adminOnly => currentUser.isAdmin)

\* C39 (as amended): ProtectedPage renders its children exactly to an
\* authorised identity and the spinner otherwise; it redirects only once
\* loading is false -- to /login when there is no identity, to /dashboard when
\* a non-privileged identity opens an admin page -- and while loading is true
\* it shows the spinner and redirects nowhere.
C39_ProtectedContentGuarded ==
  \A adminOnly \in BOOLEAN :
    LET renders == ProtectedPageRenders(currentUser, loading, adminOnly)
        redirects == ProtectedPageRedirects(currentUser, loading, adminOnly)
    IN  /\ renders = "children" <=> Authorised(adminOnly)
        /\ renders = "PageSpinner" <=> ~Authorised(adminOnly)
        /\ Authorised(adminOnly) => redirects = "none"
        /\ loading => redirects = "none"
        /\ (~loading /\ currentUser = NoUser) => redirects = "/login"
        /\ (~loading /\ currentUser # NoUser /\ ~Authorised(adminOnly)) =>
              redirects = "/dashboard"

\* A call is in flight with nobody logged in: the page shows the spinner and
\* does not redirect.
C39_SpinnerWhileLoading ==
  /\ loading /\ currentUser = NoUser
  /\ Len(users) > 0
  /\ ProtectedPageRenders(currentUser, loading, TRUE) = "PageSpinner"
  /\ ProtectedPageRedirects(currentUser, loading, TRUE) = "none"

\* C39 as stated: children exactly to an authorised identity, and whenever
\* the spinner is rendered the page redirects, to /login when there is no
\* identity and to /dashboard when a non-privileged identity opens an admin
\* page.
C39_SpinnerAlwaysRedirects ==
  \A adminOnly \in BOOLEAN :
    LET renders == ProtectedPageRenders(currentUser, loading, adminOnly)
        redirects == ProtectedPageRedirects(currentUser, loading, adminOnly)
    IN  /\ renders = "children" <=> Authorised(adminOnly)
        /\ renders = "PageSpinner" =>
              /\ redirects # "none"
              /\ currentUser = NoUser => redirects = "/login"
              /\ (currentUser # NoUser /\ adminOnly /\ ~currentUser.isAdmin) =>
                    redirects = "/dashboard"

=============================================================================
